---------------------------- MODULE Spec2Model ----------------------------
(***************************************************************************)
(* Model of the Home component of DoIt-rs (src/src/components/home.rs):    *)
(* the mode state machine, the todo store, the input buffer, the browse    *)
(* cursor, the persisted file and the list selection computed by draw.     *)
(*                                                                         *)
(* Strings (titles, the input buffer, the persisted file) are sequences of *)
(* one-character strings.                                                  *)
(***************************************************************************)
EXTENDS Integers, Sequences, FiniteSets, TLC

VARIABLES
    input_mode,   \* Home.input_mode : Mode
    todos,        \* Home.todos : Vec<TodoItem>
    input,        \* Home.input : tui_input::Input  (value and cursor)
    cursor_row,   \* Home.cursor_row : i64
    command_tx,   \* Home.command_tx : Option<UnboundedSender<Action>>
    chan,         \* the actions in flight on the harness's action channel
    file,         \* ./.data/home.json
    phase,        \* where the harness is in the component's lifecycle
    ret,          \* what the last buildup / teardown returned
    frame,        \* what draw asked the terminal to show, if it ran since the last step
    last,         \* history: the operation last started, and the state it started in
    saved,        \* history: the store the file was written from, while it still is that file
    session,      \* history: the store when the event loop began, and the buffers AddTodo
                  \* found when update applied it in Editing mode since
    upd           \* history: the action of the last update call and what the call returned

vars == <<input_mode, todos, input, cursor_row, command_tx, chan, file, phase,
          ret, frame, last, saved, session, upd>>

-----------------------------------------------------------------------------
(* Bounds of the model *)

MaxTodos == 2    \* the store holds at most this many items
MaxBuf == 1      \* the input buffer holds at most this many characters

-----------------------------------------------------------------------------
(* Inputs *)

\* The characters the user types into the input buffer: the quote, which
\* the persisted JSON text has to escape.
TypedChars == {"\""}

\* KeyCode::Char(c) of the keys the model presses.
CharKeys == {"i", "v", "h", "j", "k", "\""}

\* The other KeyCodes the model presses.
OtherKeys == {"Enter", "Esc", "Backspace", "Left", "F1"}

Keys == CharKeys \cup OtherKeys

None == "None"

\* The variants of Action that Home produces or matches, and Tick for the
\* variants it does neither with.
Actions ==
    {"EnterCommandMode", "EnterBrowseMode", "EnterHelpMode", "AddTodo",
     "ExitCurrentMode", "Refresh", "BrowseListUp", "BrowseListDown", "Tick"}

Modes == {"Normal", "Editing", "Browse", "Help"}


-----------------------------------------------------------------------------
(* tui_input::Input, as far as Home uses it *)

\* Input::default() and the state Input::reset() leaves.
EmptyInput == [value |-> <<>>, cursor |-> 0]

\* InputRequest::InsertChar(c): c goes in at the cursor, the cursor moves past it.
InsertChar(inp, c) ==
    [value  |-> SubSeq(inp.value, 1, inp.cursor) \o <<c>>
                  \o SubSeq(inp.value, inp.cursor + 1, Len(inp.value)),
     cursor |-> inp.cursor + 1]

\* InputRequest::DeletePrevChar: nothing at the start of the line.
DeletePrevChar(inp) ==
    IF inp.cursor = 0 THEN inp
    ELSE [value  |-> SubSeq(inp.value, 1, inp.cursor - 1)
                       \o SubSeq(inp.value, inp.cursor + 1, Len(inp.value)),
          cursor |-> inp.cursor - 1]

\* InputRequest::GoToPrevChar / GoToNextChar.
GoToPrevChar(inp) == IF inp.cursor = 0 THEN inp ELSE [inp EXCEPT !.cursor = @ - 1]
GoToNextChar(inp) ==
    IF inp.cursor = Len(inp.value) THEN inp ELSE [inp EXCEPT !.cursor = @ + 1]

\* self.input.handle_event(&Event::Key(key)): keys that are no input request
\* (Enter, Esc, F1, ...) leave the buffer alone.
handle_event(inp, key) ==
    IF key \in CharKeys THEN InsertChar(inp, key)
    ELSE IF key = "Backspace" THEN DeletePrevChar(inp)
    ELSE IF key = "Left" THEN GoToPrevChar(inp)
    ELSE IF key = "Right" THEN GoToNextChar(inp)
    ELSE inp

-----------------------------------------------------------------------------
(* Home::handle_key_events *)

\* sender.send(action) on an UnboundedSender: the action is queued.
Send(tx, action) == IF tx = "Some" THEN <<action>> ELSE <<>>

\* sender.send(action) is Err when the receiver is closed or dropped
\* (command_tx = "Closed"); handle_key_events then calls error!(..).
SendFails(tx) == tx = "Closed"

\* Does handle_key_events write its error line to the log?
handle_key_logs(mode, tx, key) ==
    mode = "Editing" /\ key = "Enter" /\ SendFails(tx)

\* The result of handle_key_events: the action returned (None for Ok(None)),
\* the actions sent on command_tx while handling the key, and the input
\* buffer afterwards.
KeyResult(returned, sent, inp) == [ret |-> returned, sent |-> sent, input |-> inp]

\* Mode::Normal => match key.code
handle_key_Normal(inp, key) ==
    CASE key = "i" -> KeyResult("EnterCommandMode", <<>>, inp)
      [] key = "v" -> KeyResult("EnterBrowseMode", <<>>, inp)
      [] key = "h" -> KeyResult("EnterHelpMode", <<>>, inp)
      [] OTHER -> KeyResult(None, <<>>, inp)

\* A slip in the Editing arm: the two actions of Enter exchanged,
\* ExitCurrentMode sent and AddTodo returned.
handle_key_Editing_SwapsActions(inp, tx, key) ==
    IF key = "Enter"
    THEN KeyResult("AddTodo", Send(tx, "ExitCurrentMode"), inp)
    ELSE KeyResult("Refresh", <<>>, handle_event(inp, key))

\* A slip in the Editing arm: `sender.send(Action::AddTodo)?`, the error
\* returned instead of logged.
handle_key_Editing_PropagatesSendError(inp, tx, key) ==
    IF key = "Enter"
    THEN IF SendFails(tx) THEN KeyResult("Err", <<>>, inp)
         ELSE KeyResult("ExitCurrentMode", Send(tx, "AddTodo"), inp)
    ELSE KeyResult("Refresh", <<>>, handle_event(inp, key))

\* Mode::Editing => match key.code
handle_key_Editing(inp, tx, key) ==
    IF key = "Enter"
    THEN KeyResult("ExitCurrentMode", Send(tx, "AddTodo"), inp)
    ELSE KeyResult("Refresh", <<>>, handle_event(inp, key))

\* Mode::Browse => match key.code
handle_key_Browse(inp, key) ==
    CASE key = "j" -> KeyResult("BrowseListDown", <<>>, inp)
      [] key = "k" -> KeyResult("BrowseListUp", <<>>, inp)
      [] OTHER -> KeyResult(None, <<>>, inp)

\* A slip in the Help arm: any key closes the help box.
handle_key_Help_AnyKeyExits(inp, key) ==
    KeyResult("ExitCurrentMode", <<>>, inp)

\* Mode::Help => match key.code
handle_key_Help(inp, key) ==
    IF key = "h" THEN KeyResult("ExitCurrentMode", <<>>, inp)
    ELSE KeyResult(None, <<>>, inp)

handle_key_events(mode, inp, tx, key) ==
    CASE mode = "Normal" -> handle_key_Normal(inp, key)
      [] mode = "Editing" -> handle_key_Editing(inp, tx, key)
      [] mode = "Browse" -> handle_key_Browse(inp, key)
      [] mode = "Help" -> handle_key_Help(inp, key)

-----------------------------------------------------------------------------
(* Home::update *)

Max(a, b) == IF a >= b THEN a ELSE b
Min(a, b) == IF a <= b THEN a ELSE b

\* TodoItem::new(title)
TodoItem(title) == [title |-> title]

\* st is the component's logical state: input_mode, todos, input, cursor_row.

\* A slip in the Normal arm: the Browse and Help targets swapped.
update_Normal_Swapped(st, action) ==
    CASE action = "EnterCommandMode" -> [st EXCEPT !.input_mode = "Editing"]
      [] action = "EnterBrowseMode" -> [st EXCEPT !.input_mode = "Help"]
      [] action = "EnterHelpMode" -> [st EXCEPT !.input_mode = "Browse"]
      [] OTHER -> st

\* Mode::Normal => match action
update_Normal(st, action) ==
    CASE action = "EnterCommandMode" -> [st EXCEPT !.input_mode = "Editing"]
      [] action = "EnterBrowseMode" -> [st EXCEPT !.input_mode = "Browse"]
      [] action = "EnterHelpMode" -> [st EXCEPT !.input_mode = "Help"]
      [] OTHER -> st

\* A slip in the Editing arm: AddTodo without self.input.reset().
update_Editing_NoReset(st, action) ==
    CASE action = "ExitCurrentMode" -> [st EXCEPT !.input_mode = "Normal"]
      [] action = "AddTodo" ->
           [st EXCEPT !.todos = Append(@, TodoItem(st.input.value)),
                      !.input_mode = "Editing"]
      [] OTHER -> st

\* A slip in the Editing arm: AddTodo with insert(0, ..) for push.
update_Editing_Prepend(st, action) ==
    CASE action = "ExitCurrentMode" -> [st EXCEPT !.input_mode = "Normal"]
      [] action = "AddTodo" ->
           [st EXCEPT !.todos = <<TodoItem(st.input.value)>> \o @,
                      !.input = EmptyInput,
                      !.input_mode = "Editing"]
      [] OTHER -> st

\* A slip in the Editing arm: AddTodo with `self.todos = vec![new_todo]`.
update_Editing_Replace(st, action) ==
    CASE action = "ExitCurrentMode" -> [st EXCEPT !.input_mode = "Normal"]
      [] action = "AddTodo" ->
           [st EXCEPT !.todos = <<TodoItem(st.input.value)>>,
                      !.input = EmptyInput,
                      !.input_mode = "Editing"]
      [] OTHER -> st

\* Mode::Editing => match action
update_Editing(st, action) ==
    CASE action = "ExitCurrentMode" -> [st EXCEPT !.input_mode = "Normal"]
      [] action = "AddTodo" ->
           [st EXCEPT !.todos = Append(@, TodoItem(st.input.value)),
                      !.input = EmptyInput,
                      !.input_mode = "Editing"]
      [] OTHER -> st

\* A slip in the Browse arm: BrowseListDown clamped to len, not len - 1.
update_Browse_ClampLen(st, action) ==
    CASE action = "ExitCurrentMode" -> [st EXCEPT !.input_mode = "Normal"]
      [] action = "BrowseListUp" -> [st EXCEPT !.cursor_row = Max(@ - 1, 0)]
      [] action = "BrowseListDown" ->
           [st EXCEPT !.cursor_row = Min(@ + 1, Len(st.todos))]
      [] OTHER -> st

\* Mode::Browse => match action
update_Browse(st, action) ==
    CASE action = "ExitCurrentMode" -> [st EXCEPT !.input_mode = "Normal"]
      [] action = "BrowseListUp" -> [st EXCEPT !.cursor_row = Max(@ - 1, 0)]
      [] action = "BrowseListDown" ->
           [st EXCEPT !.cursor_row = Min(@ + 1, Len(st.todos) - 1)]
      [] OTHER -> st

\* A slip in the Help arm: ExitCurrentMode falls to `_ => {}`.
update_Help_IgnoresExit(st, action) == st

\* Mode::Help => match action
update_Help(st, action) ==
    CASE action = "ExitCurrentMode" -> [st EXCEPT !.input_mode = "Normal"]
      [] OTHER -> st

update(st, action) ==
    CASE st.input_mode = "Normal" -> update_Normal(st, action)
      [] st.input_mode = "Editing" -> update_Editing(st, action)
      [] st.input_mode = "Browse" -> update_Browse(st, action)
      [] st.input_mode = "Help" -> update_Help(st, action)

\* A slip in update: an action no mode has an arm for is an error.
update_returns_UnmatchedIsError(st, action) ==
    IF action \in {"Refresh", "Tick"} THEN "Err" ELSE "Ok(None)"

\* What update returns: Ok(None), after the match, whatever arm was taken.
update_returns(st, action) == "Ok(None)"

-----------------------------------------------------------------------------
(* Home::draw: what it passes to the terminal *)

\* n as usize, for an i64 n: the 64-bit two's complement pattern, as four
\* 16-bit limbs, most significant first.
LimbBase == 2 ^ 16
AsUsize(n) ==
    LET q1 == n \div LimbBase
        q2 == q1 \div LimbBase
        q3 == q2 \div LimbBase
    IN  <<q3 % LimbBase, q2 % LimbBase, q1 % LimbBase, n % LimbBase>>

\* impl Display for Mode
ModeName(mode) == IF mode = "Browse" THEN "Browsing" ELSE mode

\* A slip in draw: state.select(Some(self.cursor_row as usize)) in every mode.
Selection_InEveryMode(mode, row) == [some |-> TRUE, index |-> AsUsize(row)]

\* state.select(..): None outside Browse, Some(cursor_row as usize) in Browse.
Selection(mode, row) ==
    IF mode = "Browse" THEN [some |-> TRUE, index |-> AsUsize(row)]
    ELSE [some |-> FALSE, index |-> AsUsize(0)]

\* The frame draw produces: the list selection, whether f.set_cursor was
\* called, and the text of the mode indicator.
draw(mode, row) ==
    [selected  |-> Selection(mode, row),
     caret     |-> (mode = "Editing"),
     indicator |-> ModeName(mode)]

\* A slip in draw: the row is clamped into the list before it is selected,
\* and the clamped row is kept in self.cursor_row.
draw_self_ClampsRow(st) ==
    [st EXCEPT !.cursor_row = Max(0, Min(@, Len(st.todos) - 1))]

\* The logical state draw leaves in `&mut self`: draw reads self.input,
\* self.todos, self.input_mode and self.cursor_row and assigns none of them.
draw_self(st) == st

-----------------------------------------------------------------------------
(* serde_json::to_writer(&mut writer, &self.todos): the compact JSON text of *)
(* a Vec<TodoItem>, TodoItem being #[derive(Serialize)] with one field.      *)

Quote == "\""
Backslash == "\\"

\* One character of a JSON string: the quote and the backslash are escaped.
EscapeChar(c) ==
    IF c = Quote THEN <<Backslash, Quote>>
    ELSE IF c = Backslash THEN <<Backslash, Backslash>>
    ELSE <<c>>

RECURSIVE EscapeStr(_)
EscapeStr(str) ==
    IF str = <<>> THEN <<>> ELSE EscapeChar(Head(str)) \o EscapeStr(Tail(str))

JsonString(str) == <<Quote>> \o EscapeStr(str) \o <<Quote>>

\* The field name of TodoItem, as a JSON string.
TitleKey == <<Quote, "t", "i", "t", "l", "e", Quote>>

JsonItem(item) == <<"{">> \o TitleKey \o <<":">> \o JsonString(item.title) \o <<"}">>

RECURSIVE JsonItems(_)
JsonItems(v) ==
    IF v = <<>> THEN <<>>
    ELSE IF Len(v) = 1 THEN JsonItem(v[1])
    ELSE JsonItem(Head(v)) \o <<",">> \o JsonItems(Tail(v))

to_writer(v) == <<"[">> \o JsonItems(v) \o <<"]">>

-----------------------------------------------------------------------------
(* serde_json::from_str::<Vec<TodoItem>>(&buffer), on the texts the model   *)
(* puts in the file: the compact text to_writer emits is read back, and a   *)
(* text cut short, with trailing characters, that is no array, or whose     *)
(* objects lack the title field is an error.                                *)

ParseErr == [ok |-> FALSE, val |-> <<>>, next |-> 0]

\* Does the literal lit stand at position i of s?
Expect(s, i, lit) ==
    /\ i + Len(lit) - 1 <= Len(s)
    /\ SubSeq(s, i, i + Len(lit) - 1) = lit

\* The characters of a JSON string whose opening quote has been read, up to
\* its closing quote.
RECURSIVE ReadString(_, _, _)
ReadString(s, i, acc) ==
    IF i > Len(s) THEN ParseErr
    ELSE IF s[i] = Quote THEN [ok |-> TRUE, val |-> acc, next |-> i + 1]
    ELSE IF s[i] = Backslash
         THEN IF i + 1 <= Len(s) /\ s[i + 1] \in {Quote, Backslash}
              THEN ReadString(s, i + 2, Append(acc, s[i + 1]))
              ELSE ParseErr
    ELSE ReadString(s, i + 1, Append(acc, s[i]))

\* One {"title":"..."} object at position i.
ReadItem(s, i) ==
    IF ~Expect(s, i, <<"{">> \o TitleKey \o <<":", Quote>>) THEN ParseErr
    ELSE LET r == ReadString(s, i + Len(TitleKey) + 3, <<>>)
         IN  IF r.ok /\ Expect(s, r.next, <<"}">>)
             THEN [ok |-> TRUE, val |-> TodoItem(r.val), next |-> r.next + 1]
             ELSE ParseErr

\* The items of the array after its opening bracket or a comma.
RECURSIVE ReadItems(_, _, _)
ReadItems(s, i, acc) ==
    LET r == ReadItem(s, i)
    IN  IF ~r.ok THEN ParseErr
        ELSE IF Expect(s, r.next, <<",">>)
             THEN ReadItems(s, r.next + 1, Append(acc, r.val))
        ELSE IF Expect(s, r.next, <<"]">>)
             THEN [ok |-> TRUE, val |-> Append(acc, r.val), next |-> r.next + 1]
        ELSE ParseErr

from_str(s) ==
    LET r == IF ~Expect(s, 1, <<"[">>) THEN ParseErr
             ELSE IF Expect(s, 2, <<"]">>) THEN [ok |-> TRUE, val |-> <<>>, next |-> 3]
             ELSE ReadItems(s, 2, <<>>)
    IN  IF r.ok /\ r.next = Len(s) + 1 THEN [ok |-> TRUE, val |-> r.val]
        ELSE [ok |-> FALSE, val |-> <<>>]

-----------------------------------------------------------------------------
(* Home::buildup and Home::teardown *)

\* The file ./.data/home.json: absent, or present with its text.
NoFile == [present |-> FALSE, data |-> <<>>]
FileOf(text) == [present |-> TRUE, data |-> text]

\* The items buildup pushes, one TodoItem::new(title) per parsed item.
RECURSIVE Rebuilt(_)
Rebuilt(v) ==
    IF v = <<>> THEN <<>> ELSE <<TodoItem(Head(v).title)>> \o Rebuilt(Tail(v))

\* A slip in buildup: `v.len() > 1` for `v.len() > 0`.
buildup_SkipsSingle(store, f) ==
    IF ~f.present THEN [ret |-> "Ok", todos |-> store]
    ELSE LET v == from_str(f.data)
         IN  IF ~v.ok THEN [ret |-> "Err", todos |-> store]
             ELSE IF Len(v.val) > 1 THEN [ret |-> "Ok", todos |-> store \o Rebuilt(v.val)]
             ELSE [ret |-> "Ok", todos |-> store]

\* A slip in buildup: the error of File::open returned with `?`.
buildup_MissingIsError(store, f) ==
    IF ~f.present THEN [ret |-> "Err", todos |-> store]
    ELSE LET v == from_str(f.data)
         IN  IF ~v.ok THEN [ret |-> "Err", todos |-> store]
             ELSE IF Len(v.val) > 0 THEN [ret |-> "Ok", todos |-> store \o Rebuilt(v.val)]
             ELSE [ret |-> "Ok", todos |-> store]

\* A slip in buildup: from_str(..).unwrap_or_default() into a cleared store.
buildup_ParseErrorResets(store, f) ==
    IF ~f.present THEN [ret |-> "Ok", todos |-> store]
    ELSE LET v == from_str(f.data)
         IN  IF ~v.ok THEN [ret |-> "Ok", todos |-> <<>>]
             ELSE IF Len(v.val) > 0 THEN [ret |-> "Ok", todos |-> store \o Rebuilt(v.val)]
             ELSE [ret |-> "Ok", todos |-> store]

\* The result and the store after buildup.  File::open failing is Ok(()) with
\* nothing pushed; a parse error returns through `?` before any push.
buildup(store, f) ==
    IF ~f.present THEN [ret |-> "Ok", todos |-> store]
    ELSE LET v == from_str(f.data)
         IN  IF ~v.ok THEN [ret |-> "Err", todos |-> store]
             ELSE IF Len(v.val) > 0 THEN [ret |-> "Ok", todos |-> store \o Rebuilt(v.val)]
             ELSE [ret |-> "Ok", todos |-> store]

\* The result and the file after teardown.  created is whether File::create
\* succeeded (it fails when ./.data cannot be written).
teardown(store, f, created) ==
    IF created THEN [ret |-> "Ok", file |-> FileOf(to_writer(store))]
    ELSE [ret |-> "Err", file |-> f]

-----------------------------------------------------------------------------
(* The state machine *)

\* The component's logical state, as update reads and writes it.
St == [input_mode |-> input_mode, todos |-> todos, input |-> input,
       cursor_row |-> cursor_row]

\* History: the operation that starts now, the state it starts in and the
\* actions still waiting to be applied; for a
\* key event also what handle_key_events returned and whether it logged an
\* error.
Snap(op, key, n) ==
    [op |-> op, key |-> key, n |-> n, input_mode |-> input_mode,
     todos |-> todos, input |-> input, cursor_row |-> cursor_row,
     command_tx |-> command_tx, pending |-> chan, returned |-> None,
     logged |-> FALSE]

\* Nothing drawn yet.
NoFrame == [selected |-> Selection("Normal", 0), caret |-> FALSE, indicator |-> ""]

NotSaved == [by_teardown |-> FALSE, todos |-> <<>>]

NoSession == [base |-> <<>>, committed |-> <<>>, send_failed |-> FALSE]

NoUpdate == [action |-> None, returned |-> None]

\* Texts some other program (or an editor) leaves in ./.data/home.json.
ExternalTexts ==
    { <<>>,
      <<"{">> \o TitleKey \o <<":">> \o JsonString(<<"j">>) \o <<"}">>,
      <<"[", "{", Quote, "t", "i", "t", "e", "l", Quote, ":">>
          \o JsonString(<<"j">>) \o <<"}", "]">>,
      to_writer(<<TodoItem(<<Backslash, Quote>>)>>) }

\* A well-formed file with its last character lost (a write cut short).
Truncated(f) ==
    IF f.present /\ from_str(f.data).ok
    THEN FileOf(SubSeq(f.data, 1, Len(f.data) - 1))
    ELSE f

ExternalFiles == {NoFile} \cup {FileOf(t) : t \in ExternalTexts}

\* Home::new(), i.e. Home::default().
Init ==
    /\ input_mode = "Normal"
    /\ todos = <<>>
    /\ input = EmptyInput
    /\ cursor_row = 0
    /\ command_tx = None
    /\ chan = <<>>
    /\ file \in ExternalFiles
    /\ phase = "new"
    /\ ret = None
    /\ frame = NoFrame
    /\ last = Snap("new", "", 0)
    /\ saved = NotSaved
    /\ session = NoSession
    /\ upd = NoUpdate

\* register_action_handler(tx), called by the harness before buildup.
RegisterActionHandler ==
    /\ phase = "new"
    /\ command_tx' = "Some"
    /\ phase' = "start"
    /\ UNCHANGED <<input_mode, todos, input, cursor_row, chan, file, ret, frame,
                   last, saved, session, upd>>

\* buildup(), before the event loop; an error is fatal to the harness.
Buildup ==
    /\ phase = "start"
    /\ LET r == buildup(todos, file)
       IN  /\ Len(r.todos) <= MaxTodos
           /\ todos' = r.todos
           /\ ret' = r.ret
           /\ phase' = IF r.ret = "Ok" THEN "start" ELSE "failed"
    /\ last' = Snap("buildup", "", IF last.op = "buildup" THEN Min(last.n + 1, 2) ELSE 1)
    /\ UNCHANGED <<input_mode, input, cursor_row, command_tx, chan, file, frame, saved,
                   session, upd>>

\* The harness enters its event loop, buildup having just succeeded.
Run ==
    /\ phase = "start"
    /\ last.op = "buildup"
    /\ ret = "Ok"
    /\ phase' = "running"
    /\ session' = [base |-> todos, committed |-> <<>>, send_failed |-> FALSE]
    /\ UNCHANGED <<input_mode, todos, input, cursor_row, command_tx, chan, file,
                   ret, frame, last, saved, upd>>

\* What the harness does with the result of handle_key_events: the action
\* returned is sent on the action channel, behind what the handler sent.
Dispatch(sent, returned) ==
    IF returned = None THEN sent ELSE Append(sent, returned)

\* The other order: the returned action reaches update ahead of what the
\* handler sent.
DispatchReturnedFirst(sent, returned) ==
    IF returned = None THEN sent ELSE <<returned>> \o sent

\* The keys the model presses in the current state.  In Editing mode every
\* character key takes the same arm of handle_key_events; the model types
\* the characters of TypedChars only, while the buffer has room, and commits
\* while the store has room.
Pressable(key) ==
    /\ input_mode = "Editing" /\ key \in CharKeys
         => key \in TypedChars /\ Len(input.value) < MaxBuf
    /\ input_mode = "Editing" /\ key = "Enter" => Len(todos) < MaxTodos

\* The harness handles an event (a key, a render) only when every action of
\* the events before it has been applied: no operation suspends mid-update.
Idle(q) == q = <<>>

\* A key event: handle_key_events, its result dispatched in one of the two
\* orders (an Err would end the harness's loop).  The harness takes the next
\* event only when the actions of the last one have been applied.
KeyEvent(key, returnedFirst) ==
    /\ phase = "running"
    /\ Idle(chan)
    /\ Pressable(key)
    /\ LET r == handle_key_events(input_mode, input, command_tx, key)
           logs == handle_key_logs(input_mode, command_tx, key)
       IN  /\ input' = r.input
           /\ chan' = IF r.ret = "Err" THEN <<>>
                      ELSE IF returnedFirst THEN DispatchReturnedFirst(r.sent, r.ret)
                      ELSE Dispatch(r.sent, r.ret)
           /\ phase' = IF r.ret = "Err" THEN "failed" ELSE phase
           /\ last' = [Snap("key", key, IF returnedFirst THEN 1 ELSE 0)
                         EXCEPT !.returned = r.ret, !.logged = logs]
           /\ session' = [session EXCEPT !.send_failed = @ \/ logs]
    /\ frame' = NoFrame
    /\ upd' = NoUpdate
    /\ UNCHANGED <<input_mode, todos, cursor_row, command_tx, file, ret, saved>>

\* A key event in the harness's order: what the handler sent is ahead of
\* what it returned.
HandleKey(key) == KeyEvent(key, FALSE)

\* A key event with the two actions of the handler in either order.
HandleKeyAnyOrder(key) == \E returnedFirst \in BOOLEAN : KeyEvent(key, returnedFirst)

\* The harness receives the next action of the channel and calls update.
Update ==
    /\ phase = "running"
    /\ chan # <<>>
    /\ LET st == update(St, Head(chan))
       IN  /\ input_mode' = st.input_mode
           /\ todos' = st.todos
           /\ input' = st.input
           /\ cursor_row' = st.cursor_row
    /\ chan' = Tail(chan)
    /\ session' = IF input_mode = "Editing" /\ Head(chan) = "AddTodo"
                  THEN [session EXCEPT !.committed = Append(@, input.value)]
                  ELSE session
    /\ upd' = [action |-> Head(chan), returned |-> update_returns(St, Head(chan))]
    /\ frame' = NoFrame
    /\ UNCHANGED <<command_tx, file, phase, ret, last, saved>>

\* draw(f, area): reads the state, writes the frame.
Draw ==
    /\ phase = "running"
    /\ Idle(chan)
    /\ frame' = draw(input_mode, cursor_row)
    /\ LET st == draw_self(St)
       IN  /\ input_mode' = st.input_mode
           /\ todos' = st.todos
           /\ input' = st.input
           /\ cursor_row' = st.cursor_row
    /\ UNCHANGED <<command_tx, chan, file, phase, ret, last, saved, session, upd>>

\* teardown(), after the event loop.
Teardown ==
    /\ phase = "running"
    /\ chan = <<>>
    /\ \E created \in BOOLEAN :
         LET r == teardown(todos, file, created)
         IN  /\ file' = r.file
             /\ ret' = r.ret
             /\ saved' = IF created THEN [by_teardown |-> TRUE, todos |-> todos]
                         ELSE saved
    /\ phase' = "stopped"
    /\ last' = Snap("teardown", "", 0)
    /\ frame' = NoFrame
    /\ upd' = NoUpdate
    /\ UNCHANGED <<input_mode, todos, input, cursor_row, command_tx, chan, session>>

\* Before buildup reads it, the file is replaced, removed or cut short by
\* something else.
ExternalWrite ==
    /\ phase = "start"
    /\ \E f \in ExternalFiles \cup {Truncated(file)} :
         /\ f # file
         /\ file' = f
    /\ saved' = NotSaved
    /\ last' = Snap("write", "", 0)
    /\ UNCHANGED <<input_mode, todos, input, cursor_row, command_tx, chan, phase,
                   ret, frame, session, upd>>

\* The program is started again: a new Home, the file as it was left.
Restart ==
    /\ phase \in {"stopped", "failed"}
    /\ input_mode' = "Normal"
    /\ todos' = <<>>
    /\ input' = EmptyInput
    /\ cursor_row' = 0
    /\ command_tx' = None
    /\ chan' = <<>>
    /\ phase' = "new"
    /\ ret' = None
    /\ frame' = NoFrame
    /\ last' = [op |-> "new", key |-> "", n |-> 0, input_mode |-> "Normal",
                todos |-> <<>>, input |-> EmptyInput, cursor_row |-> 0,
                command_tx |-> None, pending |-> <<>>, returned |-> None,
                logged |-> FALSE]
    /\ session' = NoSession
    /\ upd' = NoUpdate
    /\ UNCHANGED <<file, saved>>

Next ==
    \/ RegisterActionHandler
    \/ Buildup
    \/ Run
    \/ \E key \in Keys : HandleKey(key)
    \/ Update
    \/ Draw
    \/ Teardown
    \/ ExternalWrite
    \/ Restart

Spec == Init /\ [][Next]_vars

\* Any action may reach update in any mode: something holding the channel's
\* sender sends `action` while the channel is idle.
Inject(action) ==
    /\ phase = "running"
    /\ chan = <<>>
    /\ action = "AddTodo" /\ input_mode = "Editing" => Len(todos) < MaxTodos
    /\ chan' = <<action>>
    /\ last' = Snap("inject", "", 0)
    /\ frame' = NoFrame
    /\ upd' = NoUpdate
    /\ UNCHANGED <<input_mode, todos, input, cursor_row, command_tx, file, phase,
                   ret, saved, session>>

NextUpdate ==
    \/ RegisterActionHandler
    \/ Buildup
    \/ Run
    \/ \E key \in Keys : HandleKey(key)
    \/ Update
    \/ \E action \in Actions : Inject(action)

\* One run of the event loop, with update open to every action in every mode.
SpecUpdate == Init /\ [][NextUpdate]_vars

NextAnyOrder ==
    \/ RegisterActionHandler
    \/ Buildup
    \/ Run
    \/ \E key \in Keys : HandleKeyAnyOrder(key)
    \/ Update
    \/ Draw

\* One run of the event loop in which nothing is assumed of the order in
\* which update gets the action sent and the action returned by one key.
SpecAnyOrder == Init /\ [][NextAnyOrder]_vars

\* The receiver behind command_tx is closed or dropped while the loop runs;
\* from then on every send on command_tx fails.
CloseReceiver ==
    /\ phase = "running"
    /\ chan = <<>>
    /\ command_tx = "Some"
    /\ command_tx' = "Closed"
    /\ UNCHANGED <<input_mode, todos, input, cursor_row, chan, file, phase, ret,
                   frame, last, saved, session, upd>>

NextSink ==
    \/ RegisterActionHandler
    \/ Buildup
    \/ Run
    \/ \E key \in Keys : HandleKey(key)
    \/ Update
    \/ Draw
    \/ CloseReceiver

\* One run of the event loop, in which the listener behind command_tx may go
\* away while the harness goes on dispatching the actions returned to it.
SpecSink == Init /\ [][NextSink]_vars

-----------------------------------------------------------------------------
(* Properties *)

\* The key event `key`, pressed in mode `mode`, has been fully processed:
\* handle_key_events has run and update has applied every action it produced.
Processed(key, mode) ==
    /\ last.op = "key"
    /\ last.key = key
    /\ last.input_mode = mode
    /\ chan = <<>>

\* The titles of a store, in order.
Titles(v) == [i \in 1..Len(v) |-> v[i].title]

C2_EnterStaysEditing ==
    Processed("Enter", "Editing") => input_mode = "Editing"

\* C3: in Browse mode, an Esc fully processed ends with mode = Normal.
C3_EscLeavesBrowse ==
    Processed("Esc", "Browse") => input_mode = "Normal"

\* C4: with a store of length len >= 1, in Browse mode the Cursor Row is
\* within [0, len-1]; a j fully processed moves it down by one and stops at
\* len-1, a k fully processed moves it up by one and stops at 0.
C4_CursorRowInRange ==
    /\ input_mode = "Browse" /\ Len(todos) >= 1 =>
           /\ 0 <= cursor_row
           /\ cursor_row <= Len(todos) - 1
    /\ Processed("j", "Browse") /\ Len(todos) >= 1 =>
           cursor_row = IF last.cursor_row < Len(todos) - 1
                        THEN last.cursor_row + 1
                        ELSE Len(todos) - 1
    /\ Processed("k", "Browse") /\ Len(todos) >= 1 =>
           cursor_row = IF last.cursor_row > 0 THEN last.cursor_row - 1 ELSE 0

\* A j pressed on the last row of a store of two or more items has been
\* processed.
C4_Witness ==
    /\ Processed("j", "Browse")
    /\ Len(todos) >= 2
    /\ last.cursor_row = Len(todos) - 1
    /\ cursor_row = Len(todos) - 1

\* C5: with an empty store, a j or k press in Browse mode leaves the Cursor
\* Row, and the index draw passes to the list selection, as they were.
C5_EmptyStoreSelectionKept ==
    /\ \/ Processed("j", "Browse")
       \/ Processed("k", "Browse")
    /\ last.todos = <<>>
    => /\ cursor_row = last.cursor_row
       /\ Selection(input_mode, cursor_row)
            = Selection(last.input_mode, last.cursor_row)

\* The keys the transition table lists for a mode.
Listed(mode, key) ==
    CASE mode = "Normal" -> key \in {"i", "v", "h"}
      [] mode = "Editing" -> key \in {"Enter", "Esc", "Backspace", "Left"} \cup CharKeys
      [] mode = "Browse" -> key \in {"j", "k", "Esc"}
      [] mode = "Help" -> key = "h"

\* C6: a key the transition table does not list for the mode it is pressed
\* in leaves the mode and the store unchanged once it is fully processed.
C6_UnlistedKeyIsNoOp ==
    /\ last.op = "key"
    /\ chan = <<>>
    /\ ~Listed(last.input_mode, last.key)
    => /\ input_mode = last.input_mode
       /\ todos = last.todos

\* F1, which the table does not list, has been processed in Editing mode on
\* a non-empty store.
C6_Witness ==
    /\ Processed("F1", "Editing")
    /\ todos # <<>>
    /\ input_mode = "Editing"

\* C7: in a session that began with an empty store, after N applications of
\* AddTodo in Editing mode the store has exactly N items, and they are the
\* committed titles in the order of commitment.
C7_AppendsKeepOrder ==
    /\ phase = "running"
    /\ session.base = <<>>
    => /\ Len(todos) = Len(session.committed)
       /\ Titles(todos) = session.committed

\* Two different titles have been committed to a store that began empty.
C7_Witness ==
    /\ phase = "running"
    /\ chan = <<>>
    /\ session.base = <<>>
    /\ Len(session.committed) = 2
    /\ session.committed[1] # session.committed[2]
    /\ Len(todos) = 2

\* C8: buildup into a component with an empty store, on the file teardown
\* wrote, succeeds and reproduces the titles teardown saved, in order.
C8_SaveLoadRoundTrip ==
    /\ last.op = "buildup"
    /\ last.todos = <<>>
    /\ saved.by_teardown
    => /\ ret = "Ok"
       /\ Titles(todos) = Titles(saved.todos)

\* A store of two items whose titles need escaping has been saved and loaded
\* back.
C8_Witness ==
    /\ last.op = "buildup"
    /\ last.todos = <<>>
    /\ saved.by_teardown
    /\ Titles(saved.todos) = << <<Backslash, Quote>>, <<Quote>> >>
    /\ Len(todos) = 2

\* C9: buildup on a missing file returns no error and leaves the store as it
\* was, so empty when it was empty, however many times it is called.
C9_MissingFileIsBenign ==
    /\ last.op = "buildup"
    /\ ~file.present
    => /\ ret = "Ok"
       /\ phase # "failed"
       /\ todos = last.todos
       /\ last.todos = <<>> => todos = <<>>

\* buildup has been called a second time in a row on a missing file.
C9_Witness ==
    /\ last.op = "buildup"
    /\ ~file.present
    /\ last.n = 2
    /\ todos = <<>>

\* C10: buildup on a file that is present but does not parse returns an
\* error and leaves the store as it was; buildup returns an error in no
\* other case, so not for a missing file.
C10_MalformedFileIsError ==
    last.op = "buildup" =>
        /\ ret = "Err" <=> (file.present /\ ~from_str(file.data).ok)
        /\ ret = "Err" => todos = last.todos /\ phase = "failed"

\* buildup has failed on an empty file, called with a non-empty store.
C10_Witness ==
    /\ last.op = "buildup"
    /\ file = FileOf(<<>>)
    /\ ret = "Err"
    /\ last.todos # <<>>
    /\ todos = last.todos

\* The logical state: mode, store, input buffer and Cursor Row.
Logical == <<input_mode, todos, input, cursor_row>>

\* The step is a draw call: only draw leaves a frame behind.
IsDraw == frame' # NoFrame

\* C11: draw does not mutate logical state: mode, store, input buffer and
\* Cursor Row are after a draw call what they were before it.
C11_DrawKeepsState == [][IsDraw => Logical' = Logical]_vars

\* draw has run in Browse mode on an empty store with the row at -1, where a
\* draw that clamped the row would have changed it.
C11_Witness ==
    /\ frame # NoFrame
    /\ input_mode = "Browse"
    /\ cursor_row = -1
    /\ todos = <<>>

\* C12: the initial mode is Normal, and from Normal the keys i, v and h,
\* fully processed, give Editing, Browse and Help, the store unchanged.
C12_NormalKeys ==
    /\ phase \in {"new", "start"} => input_mode = "Normal"
    /\ Processed("i", "Normal") => input_mode = "Editing" /\ todos = last.todos
    /\ Processed("v", "Normal") => input_mode = "Browse" /\ todos = last.todos
    /\ Processed("h", "Normal") => input_mode = "Help" /\ todos = last.todos

\* v has been processed in Normal mode on a non-empty store.
C12_Witness ==
    /\ Processed("v", "Normal")
    /\ input_mode = "Browse"
    /\ todos # <<>>

\* C13: in Help mode h, fully processed, gives Normal; every other key
\* leaves mode, store, input buffer and Cursor Row as they were.
C13_HelpKeys ==
    /\ Processed("h", "Help") => input_mode = "Normal"
    /\ \A key \in Keys \ {"h"} :
         Processed(key, "Help") =>
             /\ input_mode = "Help"
             /\ todos = last.todos
             /\ input = last.input
             /\ cursor_row = last.cursor_row

\* h has been processed in Help mode.
C13_Witness ==
    /\ Processed("h", "Help")
    /\ input_mode = "Normal"
    /\ todos # <<>>

\* v is a prefix of w.
IsPrefix(v, w) == Len(v) <= Len(w) /\ SubSeq(w, 1, Len(v)) = v

\* C14: the store only grows: the store an operation started with, and the
\* store the event loop began with, are prefixes of the store now.
C14_StoreOnlyGrows ==
    /\ IsPrefix(last.todos, todos)
    /\ phase = "running" => IsPrefix(session.base, todos)

\* A second item has been appended to a store during the event loop.
C14_Witness ==
    /\ Processed("Enter", "Editing")
    /\ Len(last.todos) = 1
    /\ Len(todos) = 2
    /\ Len(session.base) < 2

\* C15: update is total and cannot fail: for every mode and every action it
\* returns Ok(None) and leaves the component in one of the four modes.
C15_UpdateIsTotal ==
    /\ input_mode \in Modes
    /\ upd # NoUpdate => upd.returned = "Ok(None)"

\* update has applied AddTodo, which only the Editing arm matches, in Help
\* mode.
C15_Witness ==
    /\ upd.action = "AddTodo"
    /\ upd.returned = "Ok(None)"
    /\ input_mode = "Help"
    /\ chan = <<>>

\* C16: when Enter is pressed in Editing mode and the send of AddTodo fails,
\* the failure is logged and nothing else: handle_key_events returns no
\* error but its intent, ExitCurrentMode, which is applied, and the key
\* events after it are processed as ever.
C16_SendFailureOnlyLogged ==
    /\ last.op = "key" /\ last.key = "Enter" /\ last.input_mode = "Editing"
         /\ SendFails(last.command_tx)
         => /\ last.logged
            /\ last.returned = "ExitCurrentMode"
            /\ chan = <<>> => input_mode = "Normal"
    /\ session.send_failed =>
         /\ phase = "running"
         /\ Processed("i", "Normal") => input_mode = "Editing"
         /\ Processed("v", "Normal") => input_mode = "Browse"
         /\ Processed("h", "Normal") => input_mode = "Help"
         /\ Processed("h", "Help") => input_mode = "Normal"

\* After a send that failed, i has been pressed in Normal mode and processed.
C16_Witness ==
    /\ session.send_failed
    /\ command_tx = "Closed"
    /\ Processed("i", "Normal")
    /\ input_mode = "Editing"

\* C17: a drawn frame has a selected list row exactly when the mode is
\* Browse, and has the text caret placed exactly when the mode is Editing;
\* in Normal and Help it has neither.
C17_SelectionAndCaretByMode ==
    frame # NoFrame =>
        /\ frame.selected.some <=> input_mode = "Browse"
        /\ frame.caret <=> input_mode = "Editing"
        /\ input_mode \in {"Normal", "Help"} => ~frame.selected.some /\ ~frame.caret

\* A frame drawn in Browse mode over a store that is not empty.
C17_Witness ==
    /\ frame # NoFrame
    /\ input_mode = "Browse"
    /\ todos # <<>>
    /\ frame.selected.some
    /\ ~frame.caret

C19_EnterAppendsInEitherOrder ==
    Processed("Enter", "Editing") =>
        /\ Len(todos) = Len(last.todos) + 1
        /\ todos[Len(todos)].title = last.input.value

\* C20: in every reachable state cursor_row is not negative, and when the
\* mode is Browse and the store is not empty the index draw selects,
\* cursor_row as usize, is an index of the store, in [0, len).
C20_CursorRowValidIndex ==
    /\ cursor_row >= 0
    /\ input_mode = "Browse" /\ todos # <<>> =>
           \E i \in 0..(Len(todos) - 1) :
               Selection(input_mode, cursor_row).index = AsUsize(i)

=============================================================================
